---- MODULE Spec2Model ----
(***************************************************************************)
(* Model of the ai-sales-analytics query-generation and self-repair loop:  *)
(*   src/src/main.py            AnalyticsWorkflow.run_analysis             *)
(*   src/src/query_generator.py QueryGenerator                             *)
(*   src/src/automated_eda.py   AutomatedEDA.execute_query                 *)
(*   src/src/summary_generator.py SummaryGenerator                         *)
(*                                                                         *)
(* Text is a sequence of tokens.  "F" is a run of three backticks, "json"  *)
(* the word json, "WS" one whitespace character, "Q" a double quote, "N"   *)
(* a JSON value that is not a string, "ksql" the member name "sql" with    *)
(* its colon (likewise "kexp", "kchg", "kwarn"), and "a", "b", "x" are     *)
(* ordinary characters.  An optional value (Python None or a missing dict  *)
(* key) is a sequence of length 0 or 1.                                    *)
(***************************************************************************)
EXTENDS Integers, Sequences, FiniteSets, TLC

\* ------------------------------------------------------------------ bounds
MaxLatency == 1

MaxJitter == 1

StartTime == 10

MaxTime == 22
MaxInstancesTime == 17

MaxSetupTextLen == 3

MaxLoads == 2

\* ------------------------------------------------------- program constants
min_delay == 5

\* -------------------------------------------------------------- optionals
None == <<>>

Some(x) == <<x>>

IsSome(o) == Len(o) = 1

\* ------------------------------------------------------------- str methods
\* the least element of a set of indices, or dflt when the set is empty
FirstOr(idx, dflt) == IF idx = {} THEN dflt ELSE CHOOSE i \in idx : \A j \in idx : i <= j

\* the greatest element of a non-empty set of indices
Last(idx) == CHOOSE i \in idx : \A j \in idx : j <= i

\* s.find(sep) counted from 1: the first index at which sep occurs in s,
\* 0 when there is none
Find(s, sep) ==
  FirstOr({i \in 1..(Len(s) - Len(sep) + 1) : SubSeq(s, i, i + Len(sep) - 1) = sep}, 0)

\* sep in s
Contains(s, sep) == Find(s, sep) # 0

\* the part of s before index i, all of s when i = 0
Before(s, i) == IF i = 0 THEN s ELSE SubSeq(s, 1, i - 1)

\* the part of s after the separator of length n found at index i
After(s, i, n) == SubSeq(s, i + n, Len(s))

\* s.split(sep)[0]
SplitFirst(s, sep) == Before(s, Find(s, sep))

\* s.split(sep)[1], for s that contains sep
SplitSecond(s, sep) == SplitFirst(After(s, Find(s, sep), Len(sep)), sep)

\* s without the characters outside the index set keep
Trim(s, keep) == IF keep = {} THEN <<>> ELSE SubSeq(s, FirstOr(keep, 0), Last(keep))

\* s.strip()
strip(s) == Trim(s, {i \in 1..Len(s) : s[i] # "WS"})

\* ------------------------------------------------------------- json.loads
KeyToks == {"ksql", "kexp", "kchg", "kwarn"}

\* index of the first token at or after i that is not whitespace
SkipWS(s, i) == FirstOr({j \in i..Len(s) : s[j] # "WS"}, Len(s) + 1)

\* a dict without members: every member name maps to None
EmptyObj == [k \in KeyToks |-> None]

\* the number of characters a token stands for: a fence is three
\* backticks, a member name comes with its quotes and colon, "long" is a
\* run of LongRun letters, everything else is one character
LongRun == 420

Width(tok) ==
  IF tok = "F" THEN 3
  ELSE IF tok = "json" THEN 4
  ELSE IF tok = "ksql" THEN 6
  ELSE IF tok = "kexp" THEN 14
  ELSE IF tok = "kchg" THEN 10
  ELSE IF tok = "kwarn" THEN 11
  ELSE IF tok = "long" THEN LongRun
  ELSE 1

RECURSIVE Offset(_, _)
\* the character index (from 0) at which token i of s starts
Offset(s, i) == IF i <= 1 THEN 0 ELSE Offset(s, i - 1) + Width(s[i - 1])

DigitToks == <<"0", "1", "2", "3", "4", "5", "6", "7", "8", "9">>

RECURSIVE Digits(_)
\* str(n), one token per digit
Digits(n) ==
  IF n < 10 THEN <<DigitToks[n + 1]>> ELSE Digits(n \div 10) \o <<DigitToks[(n % 10) + 1]>>

\* str(e) of JSONDecodeError(msg, doc, pos) for a one-line document:
\* "msg: line 1 column pos+1 (char pos)"
DecodeErrorText(what, pos) ==
  <<what, "line", "1", "column">> \o Digits(pos + 1) \o <<"char">> \o Digits(pos)

\* JSONDecodeError raised at character index pos
DecodeError(what, pos) ==
  [ok |-> FALSE, kind |-> "err", str |-> <<>>, obj |-> EmptyObj, next |-> 0,
   msg |-> DecodeErrorText(what, pos)]

\* the string literal opened at s[i], given the index j of the next quote
\* (0 when there is none; the quote that opens a member name does not
\* close a value)
ParseString(s, i, j) ==
  IF j = 0 THEN DecodeError("Unterminated string starting at", Offset(s, i))
  ELSE IF s[j] # "Q" THEN DecodeError("Expecting ',' delimiter", Offset(s, j) + 1)
  ELSE [ok |-> TRUE, kind |-> "str", str |-> SubSeq(s, i + 1, j - 1), obj |-> EmptyObj,
        next |-> j + 1, msg |-> <<>>]

\* a JSON value starting at s[i]: a string literal or a non-string scalar
ParseValue(s, i) ==
  IF i > Len(s) THEN DecodeError("Expecting value", Offset(s, i))
  ELSE IF s[i] = "N"
  THEN [ok |-> TRUE, kind |-> "num", str |-> <<>>, obj |-> EmptyObj, next |-> i + 1,
        msg |-> <<>>]
  ELSE IF s[i] = "Q"
  THEN ParseString(s, i, FirstOr({j \in (i + 1)..Len(s) : s[j] \in {"Q"} \cup KeyToks}, 0))
  ELSE DecodeError("Expecting value", Offset(s, i))

RECURSIVE ParseMembers(_, _, _)
\* after a member: "}" closes the object, "," starts the next member
MemberEnd(s, obj, e) ==
  IF e > Len(s) THEN DecodeError("Expecting ',' delimiter", Offset(s, e))
  ELSE IF s[e] = "}"
  THEN [ok |-> TRUE, kind |-> "obj", str |-> <<>>, obj |-> obj, next |-> e + 1, msg |-> <<>>]
  ELSE IF s[e] = "," THEN ParseMembers(s, e + 1, obj)
  ELSE DecodeError("Expecting ',' delimiter", Offset(s, e))

\* the member named s[k] with the parsed value v (a later duplicate name
\* replaces an earlier one)
MemberValue(s, k, obj, v) ==
  IF ~v.ok THEN v
  ELSE MemberEnd(s, [obj EXCEPT ![s[k]] = Some([kind |-> v.kind, str |-> v.str])],
                 SkipWS(s, v.next))

\* a member whose name is expected at s[k]
Member(s, k, obj) ==
  IF k > Len(s) \/ s[k] \notin KeyToks
  THEN DecodeError("Expecting property name enclosed in double quotes", Offset(s, k))
  ELSE MemberValue(s, k, obj, ParseValue(s, SkipWS(s, k + 1)))

\* the members of an object from s[i] on, after "{" or ","; obj holds the
\* members read so far
ParseMembers(s, i, obj) == Member(s, SkipWS(s, i), obj)

\* the document whose first token is s[i]
ParseDocument(s, i) ==
  IF i > Len(s) THEN DecodeError("Expecting value", Offset(s, i))
  ELSE IF s[i] # "{" THEN ParseValue(s, i)
  ELSE IF SkipWS(s, i + 1) <= Len(s) /\ s[SkipWS(s, i + 1)] = "}"
  THEN [ok |-> TRUE, kind |-> "obj", str |-> <<>>, obj |-> EmptyObj,
        next |-> SkipWS(s, i + 1) + 1, msg |-> <<>>]
  ELSE ParseMembers(s, i + 1, EmptyObj)

\* nothing but whitespace may follow the document ("Extra data")
Document(s, top) ==
  IF ~top.ok THEN [kind |-> "err", obj |-> EmptyObj, msg |-> top.msg]
  ELSE IF SkipWS(s, top.next) <= Len(s)
  THEN [kind |-> "err", obj |-> EmptyObj,
        msg |-> DecodeErrorText("Extra data", Offset(s, SkipWS(s, top.next)))]
  ELSE [kind |-> top.kind, obj |-> top.obj, msg |-> <<>>]

\* json.loads(s): kind "obj" with its members, kind "num"/"str" for a
\* document that is not an object, kind "err" with str(e) in msg for
\* JSONDecodeError
loads(s) == Document(s, ParseDocument(s, SkipWS(s, 1)))

\* ------------------------------------------------- QueryGenerator (pure)
\* the outcome of client.models.generate_content: a response with a text
\* body, a response whose .text is None, or a raised exception with str(e)
TextResponse(body) == [kind |-> "text", body |-> body, msg |-> <<>>]

NoTextResponse == [kind |-> "notext", body |-> <<>>, msg |-> <<>>]

Raises(msg) == [kind |-> "raise", body |-> <<>>, msg |-> msg]

\* "Remove markdown code blocks if present"
extract_json(response_text) ==
  IF Contains(response_text, <<"F", "json">>)
  THEN strip(SplitFirst(SplitSecond(response_text, <<"F", "json">>), <<"F">>))
  ELSE IF Contains(response_text, <<"F">>)
  THEN strip(SplitFirst(SplitSecond(response_text, <<"F">>), <<"F">>))
  ELSE response_text

\* result.get(key, '') followed by .strip(): None stands for the
\* AttributeError raised when the member is not a string
get_stripped(obj, key) ==
  IF obj[key] = None THEN Some(<<>>)
  ELSE IF obj[key][1].kind = "str" THEN Some(strip(obj[key][1].str))
  ELSE None

\* an exception of class type with str(e) = msg
Raised(type, msg) == [exc |-> Some(msg), type |-> type, fields |-> EmptyObj]

\* building the returned dict from the decoded document: .get raises
\* AttributeError on a document that is not an object, .strip on a member
\* that is not a string
read_fields(result, keys) ==
  IF result.kind = "err" THEN Raised("JSONDecodeError", result.msg)
  ELSE IF result.kind # "obj" THEN Raised("AttributeError", <<"AttributeError">>)
  ELSE IF \E k \in keys : get_stripped(result.obj, k) = None THEN Raised("AttributeError", <<"AttributeError">>)
  ELSE [exc |-> None, type |-> "none",
        fields |-> [k \in KeyToks |-> IF k \in keys THEN get_stripped(result.obj, k) ELSE None]]

\* the try block up to the return: exc is str(e) of the exception raised,
\* if any, and otherwise fields holds the stripped members named in keys
try_parse(backend, keys) ==
  IF backend.kind = "raise" THEN Raised("APIError", backend.msg)
  ELSE IF backend.kind = "notext" THEN Raised("TypeError", <<"TypeError">>)
  ELSE read_fields(loads(extract_json(backend.body)), keys)

\* variant: only decoder errors are caught
handled_decode_only(type) == type = "JSONDecodeError"

\* "except Exception as e" (query_generator.py 114, 193): the classes of
\* the exceptions the try block can raise are all subclasses of Exception
handled(type) == type \in {"APIError", "TypeError", "JSONDecodeError", "AttributeError"}

\* the exception raised in the try block leaves the method
propagates(t) == IsSome(t.exc) /\ ~handled(t.type)

\* variant: only the status code is recognised
is_rate_limit_code_only(error_msg) == Contains(error_msg, <<"4", "2", "9">>)

\* '429' in error_msg or 'RESOURCE_EXHAUSTED' in error_msg
is_rate_limit(error_msg) ==
  Contains(error_msg, <<"4", "2", "9">>) \/ Contains(error_msg, <<"RESOURCE_EXHAUSTED">>)

GenerateHint == <<"Rate limit exceeded. Try again in a few minutes or enable billing for higher quota.">>

ValidateHint == <<"Rate limit exceeded. Try again in a few minutes.">>

\* the dict returned by the except clause
failure(error_msg, hint) ==
  [success |-> FALSE, sql |-> None, explanation |-> None, changes |-> None, warnings |-> None,
   error |-> IF is_rate_limit(error_msg) THEN Some(hint) ELSE Some(error_msg),
   error_type |-> IF is_rate_limit(error_msg) THEN Some("rate_limit") ELSE None]

\* the dict generate_sql returns for the outcome t of its try block
generate_result(t) ==
  IF IsSome(t.exc) THEN failure(t.exc[1], GenerateHint)
  ELSE [success |-> TRUE, sql |-> t.fields["ksql"], explanation |-> t.fields["kexp"],
        changes |-> None, warnings |-> None, error |-> None, error_type |-> None]

\* QueryGenerator.generate_sql, as a function of the completion outcome:
\* the dict it returns, unless the exception propagates
generate_sql(backend) == generate_result(try_parse(backend, {"ksql", "kexp"}))

\* the dict validate_and_improve_query returns for the outcome t of its
\* try block
validate_result(t) ==
  IF IsSome(t.exc) THEN failure(t.exc[1], ValidateHint)
  ELSE [success |-> TRUE, sql |-> t.fields["ksql"], explanation |-> None,
        changes |-> t.fields["kchg"], warnings |-> t.fields["kwarn"],
        error |-> None, error_type |-> None]

\* QueryGenerator.validate_and_improve_query, as a function of the
\* completion outcome (the throttle is RequestValidate below)
validate_and_improve_query(backend) ==
  validate_result(try_parse(backend, {"ksql", "kchg", "kwarn"}))

\* variant: the sleep is one time unit too short
wait_time_short(time_since_last) ==
  IF time_since_last < min_delay THEN min_delay - time_since_last - 1 ELSE 0

\* time.sleep argument of _wait_for_rate_limit, 0 when it does not sleep
wait_time(time_since_last) ==
  IF time_since_last < min_delay THEN min_delay - time_since_last ELSE 0

\* ------------------------------------------------------ completion bodies
SqlMembers ==
  { <<>>,
    <<"ksql", "Q", "Q">>,
    <<"ksql", "Q", "WS", "Q">>,
    <<"ksql", "Q", "a", "Q">>,
    <<"ksql", "WS", "Q", "WS", "b", "Q">>,
    <<"ksql", "N">> }

OtherMembers ==
  { <<>>,
    <<"kexp", "Q", "x", "Q">>,
    <<"kchg", "Q", "x", "WS", "Q", ",", "kwarn", "Q", "Q">> }

Payload(m1, m2) ==
  <<"{">> \o m1 \o (IF m1 # <<>> /\ m2 # <<>> THEN <<",">> ELSE <<>>) \o m2 \o <<"}">>

Payloads == {Payload(m1, m2) : m1 \in SqlMembers, m2 \in OtherMembers}

\* a payload whose sql value contains three backticks
FencePayload == <<"{", "ksql", "Q", "a", "F", "b", "Q", "}">>

\* the payload p inside a structured-data fence, and inside a bare fence
Wrappings(p) ==
  { <<"F", "json", "WS">> \o p \o <<"WS", "F">>, <<"F", "WS">> \o p \o <<"WS", "F">> }

Bodies ==
  Payloads
  \cup {<<"F", "json", "WS">> \o p \o <<"WS", "F">> : p \in Payloads}
  \cup {<<"x", "WS", "F", "WS">> \o p \o <<"F", "WS">> : p \in Payloads}
  \cup {w : w \in Wrappings(FencePayload)}
  \cup { <<>>, <<"x">>, <<"N">>, <<"Q", "a", "Q">>, <<"{", "ksql", "Q", "a">>, FencePayload,
         <<"{", "ksql", "Q", "long", "Q">>,
         <<"F", "json", "WS", "{", "ksql", "Q", "long", "Q", "WS", "F">> }

ErrorTexts == { <<>>, <<"e1">>, <<"e2">>, <<"4", "2", "9", "e1">>, <<"RESOURCE_EXHAUSTED">> }

Backends == {TextResponse(b) : b \in Bodies} \cup {NoTextResponse} \cup {Raises(m) : m \in ErrorTexts}

\* ---------------------------------------------------------- AutomatedEDA
Tables == { <<>>, <<"t1">>, <<"t1", "t2">> }

\* what pd.read_sql does with the statement: a table, or an exception
DbOutcomes ==
  {[kind |-> "rows", rows |-> t, msg |-> <<>>] : t \in Tables}
  \cup {[kind |-> "raise", rows |-> <<>>, msg |-> m] : m \in {<<>>, <<"e1">>, <<"e2">>}}

\* variant: the statement is extended before it is submitted
submitted_statement_extended(sql) == IF IsSome(sql) THEN Some(sql[1] \o <<"x">>) ELSE sql

\* the statement execute_query hands to the database:
\* pd.read_sql(sql_query, conn) (automated_eda.py 37)
submitted_statement(sql) == sql

\* variant: the connection is only released when the statement succeeded
connections_after_with_leaky(c, n, db) == IF c = "open" /\ db.kind = "rows" THEN n - 1 ELSE n

\* leaving "with self.engine.connect() as conn" (automated_eda.py 36-38):
\* the connection, if one was opened, is closed on return and on exception
connections_after_with(c, n, db) == IF c = "open" THEN n - 1 ELSE n

\* variant: an exception with an empty message leaves no error text
execute_query_drops_empty(sql, db) ==
  IF db.kind = "rows" THEN [df |-> Some(db.rows), error |-> None]
  ELSE [df |-> None, error |-> IF db.msg = <<>> THEN None ELSE Some(db.msg)]

\* AutomatedEDA.execute_query: the pair (df, error)
execute_query(sql, db) ==
  IF db.kind = "rows" THEN [df |-> Some(db.rows), error |-> None]
  ELSE [df |-> None, error |-> Some(db.msg)]

\* ------------------------------------------------------- SummaryGenerator
SummaryBackends ==
  {TextResponse(<<"s">>), NoTextResponse} \cup {Raises(m) : m \in {<<"e1">>, <<"4", "2", "9", "e1">>}}

\* SummaryGenerator.generate_executive_summary, as a function of the
\* completion outcome: the returned summary (None when response.text is None)
generate_executive_summary(backend) ==
  IF backend.kind = "text" THEN Some(backend.body)
  ELSE IF backend.kind = "notext" THEN None
  ELSE IF is_rate_limit(backend.msg) THEN Some(<<"Error generating summary: Rate limit exceeded.">>)
  ELSE Some(<<"Error generating summary: ">> \o backend.msg)

\* ------------------------------------------------------------------ state
Questions == {"q1", "q2"}

VARIABLES
  pc,                        \* position in main / run_analysis
  natural_language_query,    \* argument of the current run
  save_sql,                  \* argument of the current run
  results,                   \* the results dict of the current run
  sql_query,                 \* local of run_analysis
  explanation,               \* local of run_analysis
  df,                        \* local of run_analysis
  error,                     \* local of run_analysis
  sql_file,                  \* contents of the .sql file written by the run
  report,                    \* contents of the complete report saved by the run
  now,                       \* time.time()
  qg_last_request_time,      \* query_gen.last_request_time
  sg_last_request_time,      \* summary_gen.last_request_time
  qg2_last_request_time,     \* last_request_time of a second QueryGenerator instance
  calls,                     \* history: component calls made so far
  req,                       \* history: the completion request just issued by query_gen
  qg_issued,                 \* history: time of query_gen's latest completion request
  qg_validated,              \* history: time of query_gen's latest Corrector request
  last_backend,              \* history: the completion outcome just received
  conn,                      \* execute_query: "none" outside the with block, else "open"/"failed"
  open_connections,          \* number of database connections currently open
  key_check,                 \* history: the latest test_gemini_api_key call
  table,                     \* DataLoader: rows of the target table
  load                       \* history: the latest load_csv_to_postgres call

vars == <<pc, natural_language_query, save_sql, results, sql_query, explanation, df, error,
          sql_file, report, now, qg_last_request_time, sg_last_request_time,
          qg2_last_request_time, calls, req, qg_issued, qg_validated, last_backend,
          conn, open_connections, key_check, table, load>>

db_vars == <<conn, open_connections>>

tool_vars == <<key_check, table, load>>

\* results = {'success': False, 'query': natural_language_query, ...}
new_results(q) ==
  [success |-> FALSE, query |-> q, sql_query |-> None, sql_explanation |-> None,
   sql_file |-> None, error |-> None, row_count |-> None, dataframe |-> None,
   eda_results |-> None, executive_summary |-> None, report_file |-> None]

\* Python truth value of the error returned by execute_query
truthy(e) == IsSome(e) /\ e[1] # <<>>

Call(op) ==
  [op |-> op, sql |-> None, err |-> None, rows |-> None, submitted |-> None, success |-> TRUE,
   out_sql |-> None, out_expl |-> None, out_err |-> None, out_type |-> None, out_rows |-> None,
   raised |-> None, escaped |-> FALSE]

NoReq == [self |-> "none", op |-> "none", start |-> 0, at |-> 0, gap |-> None, prev |-> None]

\* QueryGenerator.__init__, SummaryGenerator.__init__ and the state of the
\* process before main / a client makes its first call
Start(at) ==
  /\ pc = at
  /\ natural_language_query = "q1"
  /\ save_sql = TRUE
  /\ results = new_results("q1")
  /\ sql_query = None
  /\ explanation = None
  /\ df = None
  /\ error = None
  /\ sql_file = None
  /\ report = None
  /\ now = StartTime
  /\ qg_last_request_time = 0
  /\ sg_last_request_time = 0
  /\ qg2_last_request_time = 0
  /\ calls = <<>>
  /\ req = NoReq
  /\ qg_issued = None
  /\ qg_validated = None
  /\ last_backend = None
  /\ conn = "none"
  /\ open_connections = 0
  /\ key_check = None
  /\ table = <<>>
  /\ load = None

Init == Start("idle")

\* the objects that own a completion client and a throttle: the workflow's
\* query_gen and summary_gen, and a QueryGenerator built by another caller
Instances == {"query_gen", "summary_gen", "query_gen2"}

\* variant: one throttle state shared by every instance
last_request_time_shared(self) == qg_last_request_time

\* self.last_request_time (query_generator.py 18, summary_generator.py 23)
last_request_time(self) ==
  IF self = "query_gen" THEN qg_last_request_time
  ELSE IF self = "summary_gen" THEN sg_last_request_time
  ELSE qg2_last_request_time

\* ------------------------------------------- QueryGenerator (timed calls)
\* the completion request of generate_sql (query_generator.py 96): issued
\* at once, its outcome arrives d later
RequestGenerate(backend, d) ==
  /\ req' = [self |-> "query_gen", op |-> "generate_sql", start |-> now, at |-> now,
             gap |-> IF IsSome(qg_issued) THEN Some(now - qg_issued[1]) ELSE None,
             prev |-> None]
  /\ qg_issued' = Some(now)
  /\ now' = now + d
  /\ last_backend' = Some(backend)
  /\ UNCHANGED <<qg_last_request_time, qg_validated>>

\* _wait_for_rate_limit followed by the completion request of
\* validate_and_improve_query (query_generator.py 53-63, 169-174):
\* time.sleep(wait_time) returns after wait_time + jitter
RequestValidate(backend, d, jitter) ==
  LET time_since_last == now - last_request_time("query_gen")
      slept == IF wait_time(time_since_last) > 0 THEN wait_time(time_since_last) + jitter ELSE 0
      stamp == now + slept
  IN /\ (wait_time(time_since_last) > 0 \/ jitter = 0)
     /\ qg_last_request_time' = stamp
     /\ req' = [self |-> "query_gen", op |-> "validate_and_improve_query", start |-> now,
                at |-> stamp,
                gap |-> IF IsSome(qg_issued) THEN Some(stamp - qg_issued[1]) ELSE None,
                prev |-> qg_validated]
     /\ qg_issued' = Some(stamp)
     /\ qg_validated' = Some(stamp)
     /\ now' = stamp + d
     /\ last_backend' = Some(backend)

\* ------------------------------------------------------ AnalyticsWorkflow
\* main calls run_analysis (main.py 210); run_analysis builds results
\* (main.py 36-40)
StartRun ==
  /\ pc = "idle"
  /\ \E q \in Questions, s \in BOOLEAN :
       /\ natural_language_query' = q
       /\ save_sql' = s
       /\ results' = new_results(q)
  /\ pc' = "generate"
  /\ UNCHANGED <<sql_query, explanation, df, error, sql_file, report, now, qg_last_request_time,
                 sg_last_request_time, qg2_last_request_time, calls, req, qg_issued, qg_validated, last_backend,
                 db_vars, tool_vars>>

\* variant: no early return after a failed generation
after_generate_no_return(query_result) == "execute"

\* where run_analysis goes after generate_sql returned (main.py 48-50)
after_generate(query_result) == IF ~query_result.success THEN "returned" ELSE "execute"

\* Step 1 (main.py 46-75): generate_sql, early return on failure, record
\* the SQL and its explanation, save the SQL file
GenerateSql ==
  /\ pc = "generate"
  /\ \E backend \in Backends, d \in 0..MaxLatency :
       LET t == try_parse(backend, {"ksql", "kexp"})
           query_result == generate_sql(backend)
           c == [Call("generate_sql") EXCEPT !.success = query_result.success,
                   !.out_sql = query_result.sql, !.out_expl = query_result.explanation,
                   !.out_err = query_result.error, !.out_type = query_result.error_type,
                   !.raised = t.exc, !.escaped = propagates(t)]
       IN /\ RequestGenerate(backend, d)
          /\ calls' = Append(calls, c)
          /\ pc' = IF propagates(t) THEN "raised" ELSE after_generate(query_result)
          /\ IF propagates(t) \/ after_generate(query_result) = "returned"
             THEN UNCHANGED <<sql_query, explanation, results, sql_file>>
             ELSE /\ sql_query' = query_result.sql
                  /\ explanation' = query_result.explanation
                  /\ sql_file' = IF save_sql
                                 THEN Some([question |-> natural_language_query,
                                            explanation |-> query_result.explanation,
                                            sql |-> query_result.sql])
                                 ELSE None
                  /\ results' = [results EXCEPT !.sql_query = query_result.sql,
                                   !.sql_explanation = query_result.explanation,
                                   !.sql_file = IF save_sql THEN Some("sql_path") ELSE None]
  /\ UNCHANGED <<natural_language_query, save_sql, df, error, report, sg_last_request_time,
                 qg2_last_request_time, db_vars, tool_vars>>

\* variant: an empty result table is treated like a failed execution
after_execute_empty_fails(r) ==
  IF truthy(r.error) \/ (IsSome(r.df) /\ Len(r.df[1]) = 0) THEN "fix"
  ELSE IF r.df = None THEN "raised" ELSE "eda"

\* where run_analysis goes after the first execute_query returned
\* (main.py 82 and 107): "if error:" tests the truth value, len(df) raises
\* TypeError when df is None
after_execute(r) ==
  IF truthy(r.error) THEN "fix" ELSE IF r.df = None THEN "raised" ELSE "eda"

\* variant: a failed retry goes back to the Corrector
after_reexecute_loops(r) ==
  IF truthy(r.error) THEN "fix" ELSE IF r.df = None THEN "raised" ELSE "eda"

\* where run_analysis goes after the retry returned (main.py 99-102, 107)
after_reexecute(r) ==
  IF truthy(r.error) THEN "returned" ELSE IF r.df = None THEN "raised" ELSE "eda"

\* variant: the retry is made whether or not the Corrector succeeded
after_fix_retries_anyway(fix_result) == "reexecute"

\* where run_analysis goes after the Corrector returned (main.py 89, 103)
after_fix(fix_result) == IF fix_result.success THEN "reexecute" ELSE "returned"

\* the arguments of validate_and_improve_query(sql_query, error) (main.py 87)
fix_arguments(generated_sql, execution_error) == [sql |-> generated_sql, err |-> execution_error]

\* variant: the Corrector's own error is stored instead
error_on_fix_failure_own(execution_error, fix_result) == fix_result.error

\* the error stored when the Corrector failed: results['error'] = error
\* (main.py 104)
error_on_fix_failure(execution_error, fix_result) == execution_error

\* variant: the corrected SQL is dropped
working_sql_stale(generated_sql, fix_result) == generated_sql

\* the SQL that run_analysis works with after a successful correction
\* (main.py 93-94)
working_sql(generated_sql, fix_result) == fix_result.sql

\* execute_query enters "with self.engine.connect() as conn"
\* (automated_eda.py 36): a connection is opened, or connect raises
OpenConnection ==
  /\ pc \in {"execute", "reexecute"}
  /\ conn = "none"
  /\ \E ok \in BOOLEAN :
       /\ conn' = IF ok THEN "open" ELSE "failed"
       /\ open_connections' = IF ok THEN open_connections + 1 ELSE open_connections
  /\ UNCHANGED <<pc, natural_language_query, save_sql, results, sql_query, explanation, df, error,
                 sql_file, report, now, qg_last_request_time, sg_last_request_time,
                 qg2_last_request_time, calls, req, qg_issued, qg_validated, last_backend,
                 tool_vars>>

\* the outcomes pd.read_sql can have: none but an exception when connect
\* failed
OutcomesFor(c) == {db \in DbOutcomes : c = "failed" => db.kind = "raise"}

\* Step 2 (main.py 80-82, 107-109): execute the generated SQL
Execute ==
  /\ pc = "execute"
  /\ conn # "none"
  /\ \E db \in OutcomesFor(conn), d \in 0..MaxLatency :
       LET r == execute_query(sql_query, db)
           c == [Call("execute_query") EXCEPT !.sql = sql_query, !.success = (db.kind = "rows"),
                   !.submitted = submitted_statement(sql_query),
                   !.out_rows = r.df, !.out_err = r.error]
       IN /\ calls' = Append(calls, c)
          /\ conn' = "none"
          /\ open_connections' = connections_after_with(conn, open_connections, db)
          /\ df' = r.df
          /\ error' = r.error
          /\ now' = now + d
          /\ pc' = after_execute(r)
          /\ results' = IF after_execute(r) = "eda"
                        THEN [results EXCEPT !.row_count = Some(Len(r.df[1])), !.dataframe = r.df]
                        ELSE results
  /\ req' = NoReq
  /\ last_backend' = None
  /\ UNCHANGED <<natural_language_query, save_sql, sql_query, explanation, sql_file, report,
                 qg_last_request_time, sg_last_request_time, qg2_last_request_time, qg_issued, qg_validated,
                 tool_vars>>

\* "Try to fix the query" (main.py 87-94, 103-105)
Fix ==
  /\ pc = "fix"
  /\ \E backend \in Backends, d \in 0..MaxLatency, jitter \in 0..MaxJitter :
       LET t == try_parse(backend, {"ksql", "kchg", "kwarn"})
           fix_result == validate_and_improve_query(backend)
           args == fix_arguments(sql_query, error)
           c == [Call("validate_and_improve_query") EXCEPT !.sql = args.sql, !.err = args.err,
                   !.success = fix_result.success, !.out_sql = fix_result.sql,
                   !.out_err = fix_result.error, !.out_type = fix_result.error_type,
                   !.raised = t.exc, !.escaped = propagates(t)]
       IN /\ RequestValidate(backend, d, jitter)
          /\ calls' = Append(calls, c)
          /\ pc' = IF propagates(t) THEN "raised" ELSE after_fix(fix_result)
          /\ IF propagates(t)
             THEN UNCHANGED <<sql_query, results>>
             ELSE IF after_fix(fix_result) = "reexecute"
             THEN /\ sql_query' = working_sql(sql_query, fix_result)
                  /\ results' = [results EXCEPT !.sql_query = working_sql(sql_query, fix_result)]
             ELSE /\ sql_query' = sql_query
                  /\ results' = [results EXCEPT !.error = error_on_fix_failure(error, fix_result)]
  /\ UNCHANGED <<natural_language_query, save_sql, explanation, df, error, sql_file, report,
                 sg_last_request_time, qg2_last_request_time, db_vars, tool_vars>>

\* "Retry execution" (main.py 97-102, 107-109)
ReExecute ==
  /\ pc = "reexecute"
  /\ conn # "none"
  /\ \E db \in OutcomesFor(conn), d \in 0..MaxLatency :
       LET r == execute_query(sql_query, db)
           c == [Call("execute_query") EXCEPT !.sql = sql_query, !.success = (db.kind = "rows"),
                   !.submitted = submitted_statement(sql_query),
                   !.out_rows = r.df, !.out_err = r.error]
       IN /\ calls' = Append(calls, c)
          /\ conn' = "none"
          /\ open_connections' = connections_after_with(conn, open_connections, db)
          /\ df' = r.df
          /\ error' = r.error
          /\ now' = now + d
          /\ pc' = after_reexecute(r)
          /\ results' = IF after_reexecute(r) = "returned"
                        THEN [results EXCEPT !.error = r.error]
                        ELSE IF after_reexecute(r) = "eda"
                        THEN [results EXCEPT !.row_count = Some(Len(r.df[1])), !.dataframe = r.df]
                        ELSE results
  /\ req' = NoReq
  /\ last_backend' = None
  /\ UNCHANGED <<natural_language_query, save_sql, sql_query, explanation, sql_file, report,
                 qg_last_request_time, sg_last_request_time, qg2_last_request_time, qg_issued, qg_validated,
                 tool_vars>>

\* the table handed to generate_eda_report, generate_executive_summary and
\* generate_detailed_report (main.py 115-145)
reported_rows(d) == d

\* Step 3 (main.py 114-121): generate_eda_report(df, question, name)
Eda ==
  /\ pc = "eda"
  /\ calls' = Append(calls, [Call("generate_eda_report") EXCEPT !.rows = reported_rows(df)])
  /\ results' = [results EXCEPT !.eda_results =
                   Some([rows |-> reported_rows(df), query_context |-> natural_language_query])]
  /\ pc' = "summary"
  /\ req' = NoReq
  /\ last_backend' = None
  /\ UNCHANGED <<natural_language_query, save_sql, sql_query, explanation, df, error,
                 sql_file, report, now, qg_last_request_time, sg_last_request_time, qg2_last_request_time,
                 qg_issued, qg_validated, db_vars, tool_vars>>

\* Step 4 (main.py 127-133): generate_executive_summary, with the
\* SummaryGenerator's own throttle (summary_generator.py 25-35, 85)
Summary ==
  /\ pc = "summary"
  /\ \E backend \in SummaryBackends, d \in 0..MaxLatency, jitter \in 0..MaxJitter :
       LET time_since_last == now - last_request_time("summary_gen")
           slept == IF wait_time(time_since_last) > 0 THEN wait_time(time_since_last) + jitter ELSE 0
           stamp == now + slept
           summary == generate_executive_summary(backend)
       IN /\ (wait_time(time_since_last) > 0 \/ jitter = 0)
          /\ calls' = Append(calls, [Call("generate_executive_summary") EXCEPT
                                       !.rows = reported_rows(df), !.success = (backend.kind = "text")])
          /\ last_backend' = Some(backend)
          /\ sg_last_request_time' = stamp
          /\ now' = stamp + d
          /\ results' = [results EXCEPT !.executive_summary = Some(summary)]
          /\ req' = [self |-> "summary_gen", op |-> "generate_executive_summary", start |-> now,
                     at |-> stamp, gap |-> None, prev |-> None]
  /\ pc' = "report"
  /\ UNCHANGED <<natural_language_query, save_sql, sql_query, explanation, df, error,
                 sql_file, report, qg_last_request_time, qg2_last_request_time, qg_issued,
                 qg_validated, db_vars, tool_vars>>

\* Step 5 (main.py 139-168): generate_detailed_report, save_report, mark
\* success, print the preview (len(summary) raises when summary is None)
Report ==
  /\ pc = "report"
  /\ LET summary == results.executive_summary[1]
     IN /\ calls' = Append(calls, [Call("generate_detailed_report") EXCEPT
                                     !.sql = sql_query, !.rows = reported_rows(df)])
        /\ report' = Some([question |-> natural_language_query, sql |-> sql_query,
                           rows |-> reported_rows(df), summary |-> summary])
        /\ results' = [results EXCEPT !.report_file = Some("report_path"), !.success = TRUE]
        /\ pc' = IF summary = None THEN "raised" ELSE "returned"
  /\ req' = NoReq
  /\ last_backend' = None
  /\ UNCHANGED <<natural_language_query, save_sql, sql_query, explanation, df, error,
                 sql_file, now, qg_last_request_time, sg_last_request_time, qg2_last_request_time, qg_issued, qg_validated,
                 db_vars, tool_vars>>

Next ==
  \/ StartRun
  \/ GenerateSql
  \/ OpenConnection
  \/ Execute
  \/ Fix
  \/ ReExecute
  \/ Eda
  \/ Summary
  \/ Report

Spec == Init /\ [][Next]_vars

\* every call that run_analysis makes returns (the completion requests,
\* the database queries, time.sleep): a step that can be taken is taken
SpecFair == Spec /\ WF_vars(Next)

\* ----------------------------------------- QueryGenerator used by a client
\* Any caller of the public methods (interactive_mode's repeated runs,
\* test_query_generator): calls in any order, with time passing in between.
ClientBackends == {TextResponse(<<"{", "ksql", "Q", "a", "Q", "}">>), Raises(<<"4", "2", "9", "e1">>)}

InitClient == Start("client")

ClientGenerate ==
  /\ pc = "client"
  /\ \E backend \in ClientBackends, d \in 0..MaxLatency :
       LET r == generate_sql(backend)
       IN /\ now + d <= MaxTime
          /\ RequestGenerate(backend, d)
          /\ calls' = <<[Call("generate_sql") EXCEPT !.success = r.success, !.out_sql = r.sql,
                           !.out_expl = r.explanation, !.out_err = r.error,
                           !.out_type = r.error_type,
                           !.raised = try_parse(backend, {"ksql", "kexp"}).exc,
                           !.escaped = propagates(try_parse(backend, {"ksql", "kexp"}))]>>
  /\ UNCHANGED <<pc, natural_language_query, save_sql, results, sql_query, explanation, df, error,
                 sql_file, report, sg_last_request_time, qg2_last_request_time, db_vars, tool_vars>>

ClientValidate ==
  /\ pc = "client"
  /\ \E backend \in ClientBackends, d \in 0..MaxLatency, jitter \in 0..MaxJitter :
       LET r == validate_and_improve_query(backend)
       IN /\ RequestValidate(backend, d, jitter)
          /\ now' <= MaxTime
          /\ calls' = <<[Call("validate_and_improve_query") EXCEPT !.success = r.success,
                           !.out_sql = r.sql, !.out_err = r.error, !.out_type = r.error_type,
                           !.raised = try_parse(backend, {"ksql", "kchg", "kwarn"}).exc,
                           !.escaped = propagates(try_parse(backend, {"ksql", "kchg", "kwarn"}))]>>
  /\ UNCHANGED <<pc, natural_language_query, save_sql, results, sql_query, explanation, df, error,
                 sql_file, report, sg_last_request_time, qg2_last_request_time, db_vars, tool_vars>>

\* one time unit passes while the caller does something else
ClientWait ==
  /\ pc = "client"
  /\ now < MaxTime
  /\ now' = now + 1
  /\ req' = NoReq
  /\ last_backend' = None
  /\ UNCHANGED <<pc, natural_language_query, save_sql, results, sql_query, explanation, df, error,
                 sql_file, report, qg_last_request_time, sg_last_request_time, qg2_last_request_time, calls,
                 qg_issued, qg_validated, db_vars, tool_vars>>

NextClient ==
  \/ ClientGenerate
  \/ ClientValidate
  \/ ClientWait

SpecClient == InitClient /\ [][NextClient]_vars

\* ------------------------------------- several instances used side by side
\* Callers that hold query_gen, summary_gen and a second QueryGenerator and
\* make throttled completion requests through them in any order. Only the
\* throttle is followed here: the outcome of a request does not enter it,
\* and the histories of the workflow run (calls, qg_issued, qg_validated,
\* last_backend) are not kept.
InitInstances == Start("instances")

\* _wait_for_rate_limit of instance self followed by its completion
\* request (query_generator.py 53-63 and 169-174, summary_generator.py
\* 25-35 and 85-94): time.sleep(wait_time) returns after wait_time + jitter
ThrottledRequest(self, op, d, jitter) ==
  LET time_since_last == now - last_request_time(self)
      slept == IF wait_time(time_since_last) > 0 THEN wait_time(time_since_last) + jitter ELSE 0
      stamp == now + slept
  IN /\ (wait_time(time_since_last) > 0 \/ jitter = 0)
     /\ stamp + d <= MaxInstancesTime
     /\ qg_last_request_time' = IF self = "query_gen" THEN stamp ELSE qg_last_request_time
     /\ sg_last_request_time' = IF self = "summary_gen" THEN stamp ELSE sg_last_request_time
     /\ qg2_last_request_time' = IF self = "query_gen2" THEN stamp ELSE qg2_last_request_time
     /\ req' = [self |-> self, op |-> op, start |-> now, at |-> stamp, gap |-> None,
                prev |-> None]
     /\ now' = stamp + d
     /\ UNCHANGED <<pc, natural_language_query, save_sql, results, sql_query, explanation, df,
                    error, sql_file, report, calls, qg_issued, qg_validated, last_backend,
                    db_vars, tool_vars>>

\* validate_and_improve_query on either QueryGenerator
InstancesValidate ==
  /\ pc = "instances"
  /\ \E self \in {"query_gen", "query_gen2"}, d \in 0..MaxLatency, jitter \in 0..MaxJitter :
       ThrottledRequest(self, "validate_and_improve_query", d, jitter)

\* generate_executive_summary on the SummaryGenerator
InstancesSummary ==
  /\ pc = "instances"
  /\ \E d \in 0..MaxLatency, jitter \in 0..MaxJitter :
       ThrottledRequest("summary_gen", "generate_executive_summary", d, jitter)

\* one time unit passes between calls
InstancesWait ==
  /\ pc = "instances"
  /\ now < MaxInstancesTime
  /\ now' = now + 1
  /\ req' = NoReq
  /\ UNCHANGED <<pc, natural_language_query, save_sql, results, sql_query, explanation, df, error,
                 sql_file, report, qg_last_request_time, sg_last_request_time,
                 qg2_last_request_time, calls, qg_issued, qg_validated, last_backend,
                 db_vars, tool_vars>>

NextInstances ==
  \/ InstancesValidate
  \/ InstancesSummary
  \/ InstancesWait

SpecInstances == InitInstances /\ [][NextInstances]_vars

\* ------------------------------------------------ setup: test_gemini_api_key
\* the words an error text of the setup check is made of; the digits are
\* characters, the other tokens are words in one of their letter cases
SetupToks ==
  {"4", "2", "9", "RESOURCE_EXHAUSTED", "resource_exhausted", "Quota", "quota", "INVALID",
   "invalid", "API key not valid", "api key not valid", "e1"}

\* str.lower() on one token
lower_tok(tok) ==
  IF tok = "RESOURCE_EXHAUSTED" THEN "resource_exhausted"
  ELSE IF tok = "Quota" THEN "quota"
  ELSE IF tok = "INVALID" THEN "invalid"
  ELSE IF tok = "API key not valid" THEN "api key not valid"
  ELSE tok

\* s.lower()
lower(s) == [i \in DOMAIN s |-> lower_tok(s[i])]

RECURSIVE SetupTexts(_)
\* the error texts of at most n tokens
SetupTexts(n) ==
  IF n = 0 THEN {<<>>}
  ELSE SetupTexts(n - 1) \cup {Append(t, tok) : t \in SetupTexts(n - 1), tok \in SetupToks}

\* GEMINI_API_KEY in the environment: unset, the placeholder of the
\* template, a key of the usual form, a key of another form
ApiKeys == {"", "your_gemini_api_key_here", "AIza-key", "other-key"}

\* the outcome of the test request: a response with text, a response
\* with empty or no text, or an exception with str(e)
SetupBackends ==
  {TextResponse(<<"x">>), TextResponse(<<>>), NoTextResponse}
  \cup {Raises(m) : m \in SetupTexts(MaxSetupTextLen)}

\* 'api key not valid' in error_msg or 'invalid' in error_msg (setup.py 176)
is_invalid_key(error_msg) ==
  Contains(error_msg, <<"api key not valid">>) \/ Contains(error_msg, <<"invalid">>)

\* variant: only the status code counts as a quota error
is_quota_error_code_only(e, error_msg) == Contains(e, <<"4", "2", "9">>)

\* '429' in str(e) or 'resource_exhausted' in error_msg or 'quota' in
\* error_msg (setup.py 180)
is_quota_error(e, error_msg) ==
  \/ Contains(e, <<"4", "2", "9">>)
  \/ Contains(error_msg, <<"resource_exhausted">>)
  \/ Contains(error_msg, <<"quota">>)

\* the except clause of test_gemini_api_key (setup.py 173-191), e = str(e)
key_check_on_error(e) ==
  IF is_invalid_key(lower(e)) THEN FALSE
  ELSE IF is_quota_error(e, lower(e)) THEN TRUE
  ELSE FALSE

\* test_gemini_api_key (setup.py 122-191): the returned truth value
test_gemini_api_key(api_key, sdk_installed, backend) ==
  IF api_key = "" \/ api_key = "your_gemini_api_key_here" THEN FALSE
  ELSE IF ~sdk_installed THEN FALSE
  ELSE IF backend.kind = "text" THEN backend.body # <<>>
  ELSE IF backend.kind = "notext" THEN FALSE
  ELSE key_check_on_error(backend.msg)

InitSetup == Start("setup")

\* main of setup.py calls test_gemini_api_key once (setup.py 294)
TestGeminiApiKey ==
  /\ pc = "setup"
  /\ \E api_key \in ApiKeys, sdk_installed \in BOOLEAN, backend \in SetupBackends :
       key_check' = Some([api_key |-> api_key, sdk_installed |-> sdk_installed,
                          backend |-> backend,
                          result |-> test_gemini_api_key(api_key, sdk_installed, backend)])
  /\ pc' = "setup_done"
  /\ UNCHANGED <<natural_language_query, save_sql, results, sql_query, explanation, df, error,
                 sql_file, report, now, qg_last_request_time, sg_last_request_time,
                 qg2_last_request_time, calls, req, qg_issued, qg_validated, last_backend,
                 db_vars, table, load>>

NextSetup == TestGeminiApiKey

SpecSetup == InitSetup /\ [][NextSetup]_vars

\* -------------------------------------------------------------- DataLoader
\* the rows of the CSV file
CsvFiles == { <<>>, <<"n1">>, <<"n1", "n2">> }

\* what the user types at "Do you want to replace the data? (yes/no): "
Responses == {"yes", "YES", "no", "y"}

\* response.lower()
response_lower(response) == IF response = "YES" THEN "yes" ELSE response

\* the step of load_csv_to_postgres that raises, 0 when none does:
\* 1 reading the CSV file, 2 counting the existing rows, 3 TRUNCATE and
\* commit, 4 df.to_sql, 5 the count that verifies the load, 6 the sample
LoadSteps == 0..6

\* from df.to_sql on (data_loader.py 53-74), tbl being the table after the
\* truncation, if there was one: to_sql appends the rows in one
\* transaction; an exception in a later step leaves them in the table
load_rows(tbl, csv, fail_at) ==
  IF fail_at = 4 THEN [table |-> tbl, result |-> FALSE]
  ELSE IF fail_at \in {5, 6} THEN [table |-> tbl \o csv, result |-> FALSE]
  ELSE [table |-> tbl \o csv, result |-> TRUE]

\* DataLoader.load_csv_to_postgres (data_loader.py 23-74): the table
\* afterwards and the returned truth value
load_csv_to_postgres(tbl, csv, response, fail_at) ==
  IF fail_at \in {1, 2} THEN [table |-> tbl, result |-> FALSE]
  ELSE IF Len(tbl) = 0 THEN load_rows(tbl, csv, fail_at)
  ELSE IF response_lower(response) # "yes" THEN [table |-> tbl, result |-> FALSE]
  ELSE IF fail_at = 3 THEN [table |-> tbl, result |-> FALSE]
  ELSE load_rows(<<>>, csv, fail_at)

InitLoader == Start("loader")

\* main of data_loader.py calls load_csv_to_postgres; the table outlives
\* the process, so a later run of the script finds the rows of an earlier
\* one
LoadCsv ==
  /\ pc = "loader"
  /\ (IF IsSome(load) THEN load[1].n ELSE 0) < MaxLoads
  /\ \E csv \in CsvFiles, response \in Responses, fail_at \in LoadSteps :
       /\ table' = load_csv_to_postgres(table, csv, response, fail_at).table
       /\ load' = Some([n |-> (IF IsSome(load) THEN load[1].n ELSE 0) + 1,
                        table_before |-> table, csv |-> csv, response |-> response,
                        fail_at |-> fail_at,
                        result |-> load_csv_to_postgres(table, csv, response, fail_at).result])
  /\ UNCHANGED <<pc, natural_language_query, save_sql, results, sql_query, explanation, df, error,
                 sql_file, report, now, qg_last_request_time, sg_last_request_time,
                 qg2_last_request_time, calls, req, qg_issued, qg_validated, last_backend,
                 db_vars, key_check>>

NextLoader == LoadCsv

SpecLoader == InitLoader /\ [][NextLoader]_vars

\* ------------------------------------------------------------ properties
Count(op) == Cardinality({i \in DOMAIN calls : calls[i].op = op})

ReportingOps == {"generate_eda_report", "generate_executive_summary", "generate_detailed_report"}

\* the run is past the query steps: in reporting, or ended after reporting
InReporting == pc \in {"eda", "summary", "report"} \/ (pc \in {"returned", "raised"} /\ IsSome(report))

GenerationFailed == Len(calls) >= 1 /\ calls[1].op = "generate_sql" /\ ~calls[1].success

FirstExecutionSucceeded == Len(calls) >= 2 /\ calls[2].op = "execute_query" /\ calls[2].success

FirstExecutionFailed == Len(calls) >= 2 /\ calls[2].op = "execute_query" /\ truthy(calls[2].out_err)

CorrectorFailed ==
  Len(calls) >= 3 /\ calls[3].op = "validate_and_improve_query" /\ ~calls[3].success

CorrectorSucceeded ==
  Len(calls) >= 3 /\ calls[3].op = "validate_and_improve_query" /\ calls[3].success

ReExecutionFailed == Len(calls) >= 4 /\ calls[4].op = "execute_query" /\ ~calls[4].success

ReExecutionSucceeded == Len(calls) >= 4 /\ calls[4].op = "execute_query" /\ calls[4].success

\* C1: in one run_analysis run, generate_sql is called at most once, the
\* Corrector at most once and execute_query at most twice, whatever the
\* outcomes of the Generator, the Executor and the Corrector are.
C1_CallBudget ==
  /\ Count("generate_sql") <= 1
  /\ Count("validate_and_improve_query") <= 1
  /\ Count("execute_query") <= 2

C1_Witness ==
  /\ pc = "returned"
  /\ Count("generate_sql") = 1
  /\ Count("validate_and_improve_query") = 1
  /\ Count("execute_query") = 2
  /\ ReExecutionFailed

\* C2: when generate_sql returns a failure, run_analysis returns at once:
\* execute_query and the Corrector are never called in that run, and the
\* returned result has no SQL and no rows.
C2_GenerationFailureIsTerminal ==
  GenerationFailed =>
    /\ pc = "returned"
    /\ Len(calls) = 1
    /\ Count("execute_query") = 0
    /\ Count("validate_and_improve_query") = 0
    /\ ~results.success
    /\ results.sql_query = None
    /\ results.dataframe = None
    /\ results.row_count = None
    /\ sql_file = None

C2_Witness ==
  /\ GenerationFailed
  /\ pc = "returned"
  /\ calls[1].out_err = Some(GenerateHint)

\* the error text of the step that ended the run in failure
LastErrorText ==
  IF GenerationFailed THEN calls[1].out_err
  ELSE IF ReExecutionFailed THEN calls[4].out_err
  ELSE calls[2].out_err

\* C3: on every terminal failure of run_analysis the returned result holds
\* the original question, the SQL last attempted (when one was generated)
\* and the last error text; a Generator failure's error text is in it.
C3_FailureResultComplete ==
  (pc = "returned" /\ ~results.success) =>
    /\ results.query = natural_language_query
    /\ (~GenerationFailed => results.sql_query = sql_query /\ IsSome(results.sql_query))
    /\ IsSome(results.error)
    /\ results.error = LastErrorText

\* C4: every generate_sql result with success = True carries a non-empty
\* sql string, for every completion response body.
C4_SuccessHasSql ==
  \A i \in DOMAIN calls :
    (calls[i].op = "generate_sql" /\ calls[i].success) =>
      (IsSome(calls[i].out_sql) /\ calls[i].out_sql[1] # <<>>)

\* C5: when the first execute_query succeeds, run_analysis goes on to
\* reporting with exactly those rows and the Generator's explanation, the
\* Corrector is never called and execute_query is called exactly once.
C5_FirstSuccessGoesToReporting ==
  FirstExecutionSucceeded =>
    /\ InReporting
    /\ Count("validate_and_improve_query") = 0
    /\ Count("execute_query") = 1
    /\ df = calls[2].out_rows
    /\ results.dataframe = calls[2].out_rows
    /\ results.row_count = Some(Len(calls[2].out_rows[1]))
    /\ explanation = calls[1].out_expl
    /\ results.sql_explanation = calls[1].out_expl
    /\ \A i \in DOMAIN calls : calls[i].op \in ReportingOps => calls[i].rows = calls[2].out_rows
    /\ IsSome(report) => report[1].rows = calls[2].out_rows

C5_Witness ==
  /\ FirstExecutionSucceeded
  /\ pc = "returned"
  /\ results.success
  /\ IsSome(report)
  /\ report[1].rows = Some(<<>>)
  /\ explanation = Some(<<"x">>)

\* C6: when the first execution fails with a non-empty error, the Corrector
\* is called with exactly the generated SQL and that error text; when the
\* Corrector and the retry both succeed, reporting receives the rows of the
\* retry, and the corrected SQL is the one recorded in the result and
\* passed to the report.
C6_CorrectionPath ==
  FirstExecutionFailed =>
    /\ Len(calls) = 2 => pc = "fix"
    /\ Len(calls) >= 3 =>
         /\ calls[3].op = "validate_and_improve_query"
         /\ calls[3].sql = calls[1].out_sql
         /\ calls[3].err = calls[2].out_err
    /\ (CorrectorSucceeded /\ ReExecutionSucceeded) =>
         /\ InReporting
         /\ sql_query = calls[3].out_sql
         /\ results.sql_query = calls[3].out_sql
         /\ results.dataframe = calls[4].out_rows
         /\ \A i \in DOMAIN calls :
              /\ calls[i].op \in ReportingOps => calls[i].rows = calls[4].out_rows
              /\ calls[i].op = "generate_detailed_report" => calls[i].sql = calls[3].out_sql
         /\ IsSome(report) =>
              (report[1].rows = calls[4].out_rows /\ report[1].sql = calls[3].out_sql)

C6_Witness ==
  /\ FirstExecutionFailed
  /\ CorrectorSucceeded
  /\ ReExecutionSucceeded
  /\ pc = "returned"
  /\ results.success
  /\ calls[1].out_sql = Some(<<"a">>)
  /\ calls[3].out_sql = Some(<<"b">>)
  /\ report[1].sql = Some(<<"b">>)
  /\ report[1].rows = Some(<<"t1">>)

\* C7: when the retry of the corrected SQL also fails, run_analysis returns
\* with success = False, the recorded error is the second execution's
\* error, the recorded sql_query is the corrected SQL, and no further
\* Corrector or Executor call is made.
C7_RetryFailureIsTerminal ==
  ReExecutionFailed =>
    /\ pc = "returned"
    /\ ~results.success
    /\ results.error = calls[4].out_err
    /\ results.sql_query = calls[3].out_sql
    /\ Len(calls) = 4

\* C8: when the Corrector fails after a failed first execution, the run
\* returns with the first execution's error recorded, the recorded SQL is
\* still the generated SQL, and execute_query is not called a second time.
C8_CorrectorFailureIsTerminal ==
  CorrectorFailed =>
    /\ pc = "returned"
    /\ ~results.success
    /\ Len(calls) = 3
    /\ Count("execute_query") = 1
    /\ results.error = calls[2].out_err
    /\ results.sql_query = calls[1].out_sql
    /\ sql_query = calls[1].out_sql

C8_Witness ==
  /\ CorrectorFailed
  /\ pc = "returned"
  /\ results.error = Some(<<"e1">>)
  /\ calls[3].out_err = Some(ValidateHint)
  /\ results.sql_query = Some(<<"a">>)

\* C9: whenever validate_and_improve_query issues its completion request,
\* at least min_delay has elapsed since the latest completion request of
\* the same QueryGenerator, a request of generate_sql included.
C9_CorrectorRequestSpaced ==
  (req.op = "validate_and_improve_query" /\ IsSome(req.gap)) => req.gap[1] >= min_delay

\* C10: a validate_and_improve_query call that starts elapsed < min_delay
\* after the previous call's recorded request time issues its request at
\* least min_delay - elapsed later, so that the two requests are at least
\* min_delay apart; with elapsed >= min_delay it is not delayed.
C10_SecondCorrectorCallDelayed ==
  (req.op = "validate_and_improve_query" /\ IsSome(req.prev)) =>
    LET elapsed == req.start - req.prev[1]
        delay == req.at - req.start
    IN /\ elapsed < min_delay => (delay >= min_delay - elapsed /\ req.at - req.prev[1] >= min_delay)
       /\ elapsed >= min_delay => delay = 0

C10_Witness ==
  /\ req.op = "validate_and_improve_query"
  /\ IsSome(req.prev)
  /\ req.start - req.prev[1] = 2
  /\ req.at - req.start = 3
  /\ qg_last_request_time = req.prev[1] + min_delay

\* C11: the throttle state is per instance. A completion request through
\* one instance changes the last_request_time of no other instance, and
\* the delay of a request depends only on the time since the requesting
\* instance's own last_request_time: it is not delayed when that time is
\* at least min_delay, however recent the requests of other instances are.
C11_ThrottleStatePerInstance ==
  [][ /\ (req'.self # "query_gen" => qg_last_request_time' = qg_last_request_time)
      /\ (req'.self # "summary_gen" => sg_last_request_time' = sg_last_request_time)
      /\ (req'.self # "query_gen2" => qg2_last_request_time' = qg2_last_request_time)
      /\ (req'.self = "query_gen" /\ now - qg_last_request_time >= min_delay
            => req'.at = req'.start)
      /\ (req'.self = "summary_gen" /\ now - sg_last_request_time >= min_delay
            => req'.at = req'.start)
      /\ (req'.self = "query_gen2" /\ now - qg2_last_request_time >= min_delay
            => req'.at = req'.start) ]_vars

\* the SummaryGenerator and the second QueryGenerator each made a request
\* at once, less than min_delay after the Corrector's request on query_gen
C11_Witness ==
  /\ req.self = "summary_gen"
  /\ req.at = req.start
  /\ qg_last_request_time > 0
  /\ req.start - qg_last_request_time < min_delay
  /\ qg2_last_request_time > qg_last_request_time
  /\ qg2_last_request_time - qg_last_request_time < min_delay
  /\ sg_last_request_time = req.at

\* C12: execute_query never raises: for every statement and every outcome
\* of the database (rows, or an exception with any message, the empty one
\* included) it returns either (rows, no error) or (no rows, error text),
\* exactly one of the two being present.
C12_ExecutorReturnsRowsOrError ==
  \A i \in DOMAIN calls :
    calls[i].op = "execute_query" =>
      \/ (IsSome(calls[i].out_rows) /\ calls[i].out_err = None /\ calls[i].success)
      \/ (calls[i].out_rows = None /\ IsSome(calls[i].out_err) /\ ~calls[i].success)

C12_Witness ==
  /\ Len(calls) >= 4
  /\ calls[2].op = "execute_query"
  /\ calls[2].out_rows = None
  /\ calls[2].out_err = Some(<<"e1">>)
  /\ calls[4].op = "execute_query"
  /\ calls[4].out_rows = None
  /\ calls[4].out_err = Some(<<>>)

\* C13: the statement execute_query submits to the database is exactly
\* the string it was given; the first statement of a run is the Generator's
\* sql and the second, if there is one, the Corrector's sql, unchanged.
C13_SubmittedSqlUnchanged ==
  /\ \A i \in DOMAIN calls :
       calls[i].op = "execute_query" => calls[i].submitted = calls[i].sql
  /\ Len(calls) >= 2 => (calls[2].op = "execute_query" /\ calls[2].submitted = calls[1].out_sql)
  /\ Len(calls) >= 4 /\ calls[4].op = "execute_query" => calls[4].submitted = calls[3].out_sql
  /\ \A i \in DOMAIN calls : calls[i].op = "execute_query" => i \in {2, 4}

C13_Witness ==
  /\ Len(calls) >= 4
  /\ calls[1].out_sql = Some(<<"a">>)
  /\ calls[2].submitted = Some(<<"a">>)
  /\ calls[3].out_sql = Some(<<"b">>)
  /\ calls[4].op = "execute_query"
  /\ calls[4].submitted = Some(<<"b">>)

\* the completion calls of the QueryGenerator
CompletionOps == {"generate_sql", "validate_and_improve_query"}

\* the call just made and the completion outcome it received
LatestCall == calls[Len(calls)]

\* the result of the call c is the result r
SameResult(c, r) ==
  /\ c.success = r.success
  /\ c.out_sql = r.sql
  /\ c.out_err = r.error
  /\ c.out_type = r.error_type
  /\ c.op = "generate_sql" => c.out_expl = r.explanation

\* the payloads that decode to an object with text members
ValidPayloads ==
  {p \in Payloads \cup {FencePayload} : loads(p).kind = "obj" /\ \A k \in KeyToks :
     loads(p).obj[k] # None => loads(p).obj[k][1].kind = "str"}

\* C14: for every valid payload P, a payload whose field values contain
\* three backticks included, generate_sql and validate_and_improve_query
\* return for P inside a fenced block (structured-data fence or bare fence)
\* the same result as for P alone.
C14_FencedParsesAsUnfenced ==
  \A p \in ValidPayloads :
    (/\ IsSome(last_backend)
     /\ last_backend[1].kind = "text"
     /\ last_backend[1].body \in Wrappings(p)
     /\ LatestCall.op \in CompletionOps) =>
      IF LatestCall.op = "generate_sql"
      THEN SameResult(LatestCall, generate_sql(TextResponse(p)))
      ELSE SameResult(LatestCall, validate_and_improve_query(TextResponse(p)))

\* C15: when the text of the exception raised inside generate_sql or
\* validate_and_improve_query contains 429 or RESOURCE_EXHAUSTED, the
\* failure has error_type rate_limit and the fixed hint of that method;
\* when it contains neither, the failure has no error_type and carries
\* the raw exception text.
C15_RateLimitClassification ==
  \A i \in DOMAIN calls :
    (calls[i].op \in CompletionOps /\ IsSome(calls[i].raised)) =>
      /\ ~calls[i].success
      /\ IF \/ Contains(calls[i].raised[1], <<"4", "2", "9">>)
            \/ Contains(calls[i].raised[1], <<"RESOURCE_EXHAUSTED">>)
         THEN /\ calls[i].out_type = Some("rate_limit")
              /\ calls[i].out_err =
                   Some(IF calls[i].op = "generate_sql" THEN GenerateHint ELSE ValidateHint)
         ELSE /\ calls[i].out_type = None
              /\ calls[i].out_err = calls[i].raised

C15_Witness ==
  /\ Len(calls) = 3
  /\ calls[3].op = "validate_and_improve_query"
  /\ calls[3].raised = Some(<<"RESOURCE_EXHAUSTED">>)
  /\ calls[3].out_type = Some("rate_limit")
  /\ calls[3].out_err = Some(ValidateHint)

\* C16: a failure to decode or read the response body, the backend having
\* answered without raising, is classified generic, never rate_limit,
\* whatever the text of the decoder's exception.
C16_DecodeFailureIsGeneric ==
  (/\ IsSome(last_backend)
   /\ last_backend[1].kind # "raise"
   /\ LatestCall.op \in CompletionOps
   /\ ~LatestCall.success) =>
     (LatestCall.out_type = None /\ LatestCall.out_err = LatestCall.raised)

\* C17: the last_request_time of an instance is set to the time of the
\* request before every completion request the instance makes, a request
\* of generate_sql included, and afterwards it never decreases and is
\* never back at its initial value 0.
C17_RequestTimeRecorded ==
  /\ [](req.self # "none" => (last_request_time(req.self) = req.at /\ req.at > 0))
  /\ [][ /\ qg_last_request_time' >= qg_last_request_time
         /\ sg_last_request_time' >= sg_last_request_time
         /\ qg2_last_request_time' >= qg2_last_request_time ]_vars

\* C18: generate_sql and validate_and_improve_query never raise: for every
\* outcome of the completion request (an exception of the backend, a rate
\* limit, a response without text, a body that does not decode, a decoded
\* body that is not an object or whose members are not text) they return a
\* result whose success is True, or False with an error text.
C18_CompletionCallsNeverRaise ==
  \A i \in DOMAIN calls :
    calls[i].op \in CompletionOps =>
      /\ ~calls[i].escaped
      /\ calls[i].success \in BOOLEAN
      /\ calls[i].success <=> calls[i].raised = None
      /\ ~calls[i].success => IsSome(calls[i].out_err)
      /\ i = Len(calls) => pc # "raised"

C18_Witness ==
  /\ Len(calls) = 3
  /\ pc = "returned"
  /\ calls[1].op = "generate_sql"
  /\ calls[1].success
  /\ calls[3].op = "validate_and_improve_query"
  /\ ~calls[3].success
  /\ calls[3].raised = Some(<<"AttributeError">>)
  /\ last_backend = Some(TextResponse(<<"N">>))

\* the run has ended: run_analysis returned or raised
RunEnded == pc \in {"returned", "raised"}

\* the run ended by returning a failure result, nothing having been reported
TerminalFailure == pc = "returned" /\ ~results.success /\ report = None

\* C19: every run ends in exactly one of two ways: in reporting, with a
\* row table that is present, or with a terminal failure. For every
\* outcome of execute_query, a failure with the empty error text included,
\* the run never goes on to reporting without rows.
C19_ReportingOrTerminalFailure ==
  /\ InReporting =>
       /\ IsSome(df)
       /\ \A i \in DOMAIN calls : calls[i].op \in ReportingOps => IsSome(calls[i].rows)
  /\ RunEnded => (InReporting \/ TerminalFailure)
  /\ ~(InReporting /\ TerminalFailure)

\* C20: run_analysis never partially succeeds: when the returned result
\* has success = True, every step of the run succeeded (the Generator,
\* the last execution, the Corrector if it was called, the executive
\* summary) and the report was saved; a failed executive-summary
\* completion is never part of a run reported as successful.
C20_SuccessMeansEveryStepSucceeded ==
  (pc = "returned" /\ results.success) =>
    /\ IsSome(report)
    /\ calls[1].op = "generate_sql" /\ calls[1].success
    /\ \A i \in DOMAIN calls :
         /\ calls[i].op = "validate_and_improve_query" => calls[i].success
         /\ calls[i].op = "generate_executive_summary" => calls[i].success
         /\ (calls[i].op = "execute_query" /\ ~calls[i].success) =>
              \E j \in DOMAIN calls : j > i /\ calls[j].op = "execute_query" /\ calls[j].success

\* C21: on every terminal failure of run_analysis the reporting steps are
\* never invoked: a run that ended without success made no EDA report, no
\* executive summary and no complete report and saved none, and a
\* reporting step is only ever reached after the Generator succeeded, no
\* Corrector call failed and the latest execution returned rows.
C21_NoReportingOnFailure ==
  /\ (RunEnded /\ ~results.success) =>
       /\ \A i \in DOMAIN calls : calls[i].op \notin ReportingOps
       /\ report = None
       /\ results.eda_results = None
       /\ results.executive_summary = None
       /\ results.report_file = None
  /\ \A i \in DOMAIN calls :
       calls[i].op \in ReportingOps =>
         /\ calls[1].success
         /\ \A j \in 1..(i - 1) : calls[j].op = "validate_and_improve_query" => calls[j].success
         /\ \E j \in 1..(i - 1) :
              /\ calls[j].op = "execute_query"
              /\ calls[j].success
              /\ \A k \in (j + 1)..(i - 1) : calls[k].op # "execute_query"

C21_Witness ==
  /\ pc = "returned"
  /\ ~results.success
  /\ ReExecutionFailed
  /\ results.error = Some(<<"e2">>)
  /\ IsSome(sql_file)
  /\ report = None
  /\ results.report_file = None

\* C25: when a run with save_sql = True has ended, the SQL file saved for
\* it holds the same SQL as the result's final sql_query, and the result's
\* sql_explanation is the explanation of that SQL, also when the Corrector
\* replaced the generated SQL.
C25_SavedSqlIsFinalSql ==
  (RunEnded /\ save_sql /\ IsSome(sql_file)) =>
    /\ sql_file[1].sql = results.sql_query
    /\ sql_file[1].explanation = results.sql_explanation
    /\ results.sql_explanation = calls[1].out_expl
    /\ results.sql_query = calls[1].out_sql

\* C22: the connection opened by execute_query is released before
\* execute_query returns, on success and on failure: outside execute_query
\* (in particular while the Generator or the Corrector is called) no
\* connection is open, and at most one is open at any time of a run.
C22_ConnectionReleased ==
  /\ open_connections <= 1
  /\ open_connections = (IF conn = "open" THEN 1 ELSE 0)
  /\ conn # "none" => pc \in {"execute", "reexecute"}
  /\ pc \in {"idle", "generate", "fix", "eda", "summary", "report", "returned", "raised"} =>
       open_connections = 0

C22_Witness ==
  /\ pc = "reexecute"
  /\ conn = "open"
  /\ open_connections = 1
  /\ Len(calls) = 3
  /\ calls[2].op = "execute_query"
  /\ ~calls[2].success
  /\ calls[3].op = "validate_and_improve_query"

\* C23: provided every external call returns, every run_analysis run
\* eventually reaches a terminal state, reporting done or a terminal
\* failure, for every sequence of Generator, Executor and Corrector
\* outcomes.
C23_RunTerminates == <>(RunEnded /\ (InReporting \/ TerminalFailure))

\* the completion call of the latest setup check failed with the text e
SetupCallFailed ==
  /\ IsSome(key_check)
  /\ key_check[1].api_key \in {"AIza-key", "other-key"}
  /\ key_check[1].sdk_installed
  /\ key_check[1].backend.kind = "raise"

\* C24 as stated: in test_gemini_api_key a completion call that fails
\* with an error text containing 429, resource_exhausted or quota is
\* reported as a valid key (True), for every such error text.
C24_QuotaErrorIsValidKey ==
  (/\ SetupCallFailed
   /\ \/ Contains(key_check[1].backend.msg, <<"4", "2", "9">>)
      \/ Contains(key_check[1].backend.msg, <<"resource_exhausted">>)
      \/ Contains(key_check[1].backend.msg, <<"quota">>)) =>
     key_check[1].result = TRUE

\* C24, amended: a completion call that fails with an error text that
\* contains 429, or resource_exhausted or quota in any letter case, and
\* contains neither "api key not valid" nor "invalid" in any letter case,
\* is reported as a valid key (True); with one of the latter two in the
\* text the check returns False.
C24_QuotaErrorWithoutInvalidIsValidKey ==
  (/\ SetupCallFailed
   /\ \/ Contains(key_check[1].backend.msg, <<"4", "2", "9">>)
      \/ Contains(lower(key_check[1].backend.msg), <<"resource_exhausted">>)
      \/ Contains(lower(key_check[1].backend.msg), <<"quota">>)) =>
     (key_check[1].result =
        (/\ ~Contains(lower(key_check[1].backend.msg), <<"api key not valid">>)
         /\ ~Contains(lower(key_check[1].backend.msg), <<"invalid">>)))

C24_Witness ==
  /\ SetupCallFailed
  /\ key_check[1].backend.msg = <<"e1", "Quota">>
  /\ key_check[1].result = TRUE

\* C26: whenever load_csv_to_postgres returns False (the user declined
\* the replacement, or a step raised an error) the rows of the target
\* table are the same as before the call, also when the failure comes
\* after the user answered yes to replacing the existing rows.
C26_FailedLoadLeavesTable ==
  (IsSome(load) /\ ~load[1].result) => table = load[1].table_before

====
